---- MODULE Spec2Model ----
(***************************************************************************)
(* Model of the document-processing webhook in src/api/main.py: the        *)
(* DocumentDownloader (shared lazily created client session, per-locator   *)
(* download into a scratch file, extension classification), the            *)
(* POST /hackrx/run handler run_webhook and the shutdown event.            *)
(*                                                                         *)
(* The handler is a coroutine on a single event loop: it is split into     *)
(* actions at its suspension points only (the await of session.get and the *)
(* await of response.read); everything between two suspension points is    *)
(* one atomic step.                                                        *)
(***************************************************************************)
EXTENDS Naturals, Sequences, FiniteSets

VARIABLES
    session,     \* downloader.session: None or the id of a ClientSession
    sessions,    \* every ClientSession ever constructed: id -> number of close() calls
    fs,          \* scratch storage: path -> request that created the file there, or Absent
    rq,          \* per request: the locals of run_webhook / download_document
    response,    \* per request: the HTTP response produced (status 0: none yet)
    hist,        \* per request: observation log (calls made, faults raised)
    shutdown,    \* the shutdown event has run
    cls          \* classification harness: one call of _get_file_extension

vars == <<session, sessions, fs, rq, response, hist, shutdown, cls>>

-----------------------------------------------------------------------------
(* Bounds *)

MaxDocs == 2         \* longest documents list of a request
MaxQuestions == 2    \* longest questions list of a request
MaxPathLen == 4      \* longest locator path given to the classification harness

Requests == {"r1", "r2"}    \* the requests that may overlap on the event loop

-----------------------------------------------------------------------------
(* Values *)

None == 0              \* self.session before the first get_session
Absent == "Absent"     \* no file at a scratch path
NoExt == <<>>          \* no extension found (the empty string, or None)

API_KEY == "secret"

\* A header value is written as its pieces between single spaces:
\* <<"Bearer", "secret">> is the header "Bearer secret".  NoHeader: none was sent.
NoHeader == <<>>

AuthHeaders ==
    {NoHeader, <<"Basic", "secret">>, <<"Bearer", "wrong">>, <<"Bearer", "secret">>}

\* A locator is written as the components urlparse splits it into; the path is
\* a sequence of characters.
url_ext == [scheme |-> "https", netloc |-> "h", path |-> <<"/", "a", ".", "B">>]
url_noscheme == [scheme |-> "", netloc |-> "", path |-> <<"h", "/", "a">>]
url_nonetloc == [scheme |-> "mailto", netloc |-> "", path |-> <<"a">>]

Locators == {url_ext, url_noscheme, url_nonetloc}

\* A content-type value is written as its pieces between ';' characters:
\* <<"application/json", " charset=utf-8">> is "application/json; charset=utf-8"
\* and <<"">> is the empty string.
ContentTypes ==
    { <<"">>, <<"text/plain">>, <<"TEXT/PLAIN">>, <<"application/json", " charset=utf-8">>,
      <<"application/json ", "charset=utf-8">>, <<"application/x-unknown">> }

\* What a server may answer to a GET: a success with a payload, or a failure
\* status.  (How the extension depends on the locator and the content type is
\* explored by the classification harness, SpecExt.)
HttpResponses ==
    { [status |-> 200, content_type |-> <<"text/plain">>, content |-> <<1, 2>>],
      [status |-> 404, content_type |-> <<"">>, content |-> <<>>] }

NoHttpResponse == [status |-> 0, content_type |-> <<"">>, content |-> <<>>]

PathChars == {"a", "B", ".", "/"}

Paths == 1 .. (Cardinality(Requests) * (MaxDocs + 1))

SeqsUpTo(S, n) == UNION { [1..k -> S] : k \in 0..n }

-----------------------------------------------------------------------------
(* Pure functions *)

lower(c) == IF c = "B" THEN "b" ELSE IF c = "A" THEN "a" ELSE c

str_lower(s) == [k \in 1..Len(s) |-> lower(s[k])]

\* str.rfind of a single character, 1-based; 0 when the character is absent.
rfind(p, c) ==
    LET hits == {k \in 1..Len(p) : p[k] = c}
    IN IF hits = {} THEN 0 ELSE CHOOSE k \in hits : \A j \in hits : j <= k

\* os.path.splitext(p)[1] (genericpath._splitext with sep '/', extsep '.'):
\* the suffix from the last dot, provided the dot comes after the last
\* separator and some character of the file name before it is not a dot.
splitext_ext(p) ==
    LET sepIndex == rfind(p, "/")
        dotIndex == rfind(p, ".")
    IN IF dotIndex > sepIndex
          /\ \E k \in (sepIndex + 1)..(dotIndex - 1) : p[k] # "."
       THEN SubSeq(p, dotIndex, Len(p))
       ELSE NoExt

\* mimetypes.guess_extension: the type is lower-cased, not stripped, and looked
\* up in the media-type table; NoExt when the table has no entry.
mime_lower(t) == IF t = "TEXT/PLAIN" THEN "text/plain" ELSE t

guess_extension(t) ==
    LET lt == mime_lower(t)
    IN IF lt = "text/plain" THEN <<".", "t", "x", "t">>
       ELSE IF lt = "application/json" THEN <<".", "j", "s", "o", "n">>
       ELSE IF lt = "application/pdf" THEN <<".", "p", "d", "f">>
       ELSE NoExt

bin_ext == <<".", "b", "i", "n">>

urlparse(url) == [scheme |-> url.scheme, netloc |-> url.netloc, path |-> url.path]

\* Mutant of _get_file_extension: the content type is consulted before the path.
_get_file_extension_ctfirst(url, content_type) ==
    LET ext == splitext_ext(urlparse(url).path)
        cext == guess_extension(Head(content_type))
    IN IF content_type # <<"">> /\ cext # NoExt THEN str_lower(cext)
       ELSE IF ext # NoExt THEN str_lower(ext)
       ELSE bin_ext

_get_file_extension(url, content_type) ==
    LET parsed_url == urlparse(url)
        ext == IF parsed_url.path # <<>> THEN splitext_ext(parsed_url.path) ELSE NoExt
    IN IF ext # NoExt THEN str_lower(ext)
       ELSE IF content_type # <<"">>
            THEN LET cext == guess_extension(Head(content_type))
                 IN IF cext # NoExt THEN str_lower(cext) ELSE bin_ext
            ELSE bin_ext

-----------------------------------------------------------------------------
(* Exceptions and responses *)

NoUrl == [scheme |-> "", netloc |-> "", path |-> <<>>]

\* An exception: its class, for an HTTPException its status_code, and its
\* message as the pieces it is formatted from (the text, the locator, str() of
\* the exception it wraps, the response status it quotes; 0: none).
Exc(type, status_code, msg, url, reason, status) ==
    [type |-> type, status_code |-> status_code, msg |-> msg, url |-> url,
     reason |-> reason, status |-> status]

NoFault == Exc("", 0, "", NoUrl, "", 0)

HTTPException(status_code, msg, url, reason, status) ==
    Exc("HTTPException", status_code, msg, url, reason, status)

NoResponse == [status |-> 0, msg |-> "", url |-> NoUrl, has_answers |-> FALSE, answers |-> <<>>]

ErrorResponse(status, msg, url) ==
    [status |-> status, msg |-> msg, url |-> url, has_answers |-> FALSE, answers |-> <<>>]

OkResponse(answers) ==
    [status |-> 200, msg |-> "", url |-> NoUrl, has_answers |-> TRUE, answers |-> answers]

-----------------------------------------------------------------------------
(* DocumentDownloader *)

\* Mutant of get_session: a client session is constructed on every call.
get_session_always_new(s, ss) ==
    [session |-> Len(ss) + 1, sessions |-> Append(ss, 0)]

\* get_session has no suspension point: the test and the assignment are one step.
get_session(s, ss) ==
    IF s = None
    THEN [session |-> Len(ss) + 1, sessions |-> Append(ss, 0)]
    ELSE [session |-> s, sessions |-> ss]

\* Mutant of close: the session is left open.
close_noop(s, ss) == ss

close(s, ss) ==
    IF s # None THEN [ss EXCEPT ![s] = @ + 1] ELSE ss

\* The except clauses of download_document: what its caller sees when e is
\* raised inside the try block.
download_document_except(e, url) ==
    IF e.type = "ClientError"
    THEN HTTPException(400, "Network error downloading", url, e.msg, e.status)
    ELSE HTTPException(500, "Error downloading", url, e.msg, e.status)

\* What download_document does up to its first suspension point, given the
\* session get_session returned: "raise" with the exception, or "get" when the
\* GET has been issued.
download_document_begin(url, sess, ss) ==
    LET parsed_url == urlparse(url)
    IN IF parsed_url.scheme = "" \/ parsed_url.netloc = ""
       THEN [kind |-> "raise",
             exc |-> download_document_except(Exc("ValueError", 0, "Invalid URL", url, "", 0), url)]
       ELSE IF ss[sess] > 0
       THEN [kind |-> "raise",
             exc |-> download_document_except(Exc("RuntimeError", 0, "Session is closed", url, "", 0), url)]
       ELSE [kind |-> "get", exc |-> NoFault]

\* The smallest scratch path no file occupies (the allocator's unique name).
fresh_path == CHOOSE p \in Paths : fs[p] = Absent /\ \A o \in Paths : fs[o] = Absent => p <= o

-----------------------------------------------------------------------------
(* run_webhook *)

InitRq ==
    [pc |-> "idle", authorization |-> NoHeader, document_urls |-> <<>>, questions |-> <<>>,
     i |-> 0, downloaded_docs |-> <<>>, answers |-> <<>>, session |-> None,
     resp |-> NoHttpResponse]

InitHist ==
    [invoked |-> <<>>, gets |-> <<>>, fault |-> NoFault, failedAt |-> 0,
     answered |-> FALSE, unlinks |-> <<>>, created |-> {}]

Bodies ==
    [documents : [kind : {"str"}, value : Locators]
                 \cup [kind : {"list"}, value : SeqsUpTo(Locators, MaxDocs)],
     questions : {[k \in 1..n |-> k] : n \in 0..MaxQuestions}]

\* Mutant of run_webhook_download_failed: the detail names the first locator.
run_webhook_download_failed_first(q, url) ==
    ErrorResponse(400, "Failed to download document", q.document_urls[1])

\* The except clause around download_document in the loop of run_webhook.
run_webhook_download_failed(q, url) ==
    ErrorResponse(400, "Failed to download document", url)

\* download_document raised exc for locator q.i: the request ends.
Fail(r, q, h, exc) ==
    /\ rq' = [rq EXCEPT ![r] = [q EXCEPT !.pc = "done"]]
    /\ hist' = [hist EXCEPT ![r] = [h EXCEPT !.fault = exc, !.failedAt = q.i]]
    /\ response' = [response EXCEPT ![r] = run_webhook_download_failed(q, q.document_urls[q.i])]

\* The head of the download loop with locals q: either the loop is over, or
\* download_document is invoked for locator q.i and runs to its first
\* suspension point.
EnterLoop(r, q, h) ==
    IF q.i > Len(q.document_urls)
    THEN /\ rq' = [rq EXCEPT ![r] = [q EXCEPT !.pc = "answer"]]
         /\ hist' = [hist EXCEPT ![r] = h]
         /\ UNCHANGED <<response, session, sessions>>
    ELSE LET url == q.document_urls[q.i]
             gs == get_session(session, sessions)
             step == download_document_begin(url, gs.session, gs.sessions)
             h1 == [h EXCEPT !.invoked = Append(@, q.i)]
             q1 == [q EXCEPT !.session = gs.session]
         IN /\ session' = gs.session
            /\ sessions' = gs.sessions
            /\ IF step.kind = "raise"
               THEN Fail(r, q1, h1, step.exc)
               ELSE /\ rq' = [rq EXCEPT ![r] = [q1 EXCEPT !.pc = "get"]]
                    /\ hist' = [hist EXCEPT ![r] = [h1 EXCEPT !.gets = Append(@, q.i)]]
                    /\ UNCHANGED response

Reject(r, q, resp) ==
    /\ rq' = [rq EXCEPT ![r] = [q EXCEPT !.pc = "done"]]
    /\ response' = [response EXCEPT ![r] = resp]
    /\ UNCHANGED <<hist, session, sessions>>

\* A request arrives and runs to its first suspension point.
run_webhook(r) ==
    /\ rq[r].pc = "idle"
    /\ ~shutdown
    /\ \E authorization \in AuthHeaders, body \in Bodies :
        LET q0 == [rq[r] EXCEPT !.authorization = authorization]
        IN IF authorization = NoHeader
           THEN Reject(r, q0, ErrorResponse(422, "Field required", NoUrl))
           ELSE IF ~(Len(authorization) >= 2 /\ authorization[1] = "Bearer")
           THEN Reject(r, q0, ErrorResponse(401, "Missing Bearer token", NoUrl))
           ELSE IF authorization[2] # API_KEY
           THEN Reject(r, q0, ErrorResponse(403, "Invalid API Key", NoUrl))
           ELSE LET document_urls == IF body.documents.kind = "str"
                                     THEN <<body.documents.value>>
                                     ELSE body.documents.value
                    q1 == [q0 EXCEPT !.document_urls = document_urls,
                                     !.questions = body.questions, !.i = 1]
                IN IF document_urls = <<>>
                   THEN Reject(r, q1, ErrorResponse(400, "No documents provided", NoUrl))
                   ELSE EnterLoop(r, q1, hist[r])
    /\ UNCHANGED <<fs, shutdown, cls>>

\* session.get completes: a transport failure, or a response with a status.
GetResponse(r) ==
    /\ rq[r].pc = "get"
    /\ LET q == rq[r]
           url == q.document_urls[q.i]
       IN \/ Fail(r, q, hist[r],
                  download_document_except(Exc("ClientError", 0, "connect", url, "", 0), url))
          \/ \E resp \in HttpResponses :
                LET q1 == [q EXCEPT !.resp = resp]
                IN IF resp.status # 200
                   THEN Fail(r, q1, hist[r],
                             download_document_except(
                                 HTTPException(400, "Failed to download document from", url,
                                               "", resp.status), url))
                   ELSE /\ rq' = [rq EXCEPT ![r] = [q1 EXCEPT !.pc = "read"]]
                        /\ UNCHANGED <<hist, response>>
    /\ UNCHANGED <<session, sessions, fs, shutdown, cls>>

\* response.read completes; the payload is written to a scratch file and the
\* loop goes on to the next locator.
ReadDone(r) ==
    /\ rq[r].pc = "read"
    /\ LET q == rq[r]
           url == q.document_urls[q.i]
       IN \/ /\ Fail(r, q, hist[r],
                     download_document_except(Exc("ClientError", 0, "payload", url, "", 0), url))
             /\ UNCHANGED <<session, sessions, fs>>
          \/ \E write_ok \in BOOLEAN :
                LET content == q.resp.content
                    content_type == q.resp.content_type
                    file_extension == _get_file_extension(url, content_type)
                    temp_file_path == fresh_path
                    doc_info == [url |-> url, file_path |-> temp_file_path,
                                 content_type |-> content_type, size |-> Len(content),
                                 extension |-> file_extension]
                    h1 == [hist[r] EXCEPT !.created = @ \cup {temp_file_path}]
                IN /\ fs' = [fs EXCEPT ![temp_file_path] = r]
                   /\ IF write_ok
                      THEN EnterLoop(r, [q EXCEPT !.downloaded_docs = Append(@, doc_info),
                                                  !.i = @ + 1], h1)
                      ELSE /\ Fail(r, q, h1,
                                   download_document_except(Exc("OSError", 0, "write", url, "", 0), url))
                           /\ UNCHANGED <<session, sessions>>
    /\ UNCHANGED <<shutdown, cls>>

\* Mutant of generate_answers: the last question gets no answer.
generate_answers_drop_last(questions, downloaded_docs) ==
    [k \in 1..(Len(questions) - 1) |->
        [extension |-> downloaded_docs[1].extension, size |-> downloaded_docs[1].size,
         question |-> questions[k], has_doc |-> TRUE]]

\* The answers loop of run_webhook: one placeholder answer per question, built
\* from the first downloaded document.
generate_answers(questions, downloaded_docs) ==
    [k \in 1..Len(questions) |->
        IF downloaded_docs # <<>>
        THEN [extension |-> downloaded_docs[1].extension, size |-> downloaded_docs[1].size,
              question |-> questions[k], has_doc |-> TRUE]
        ELSE [extension |-> NoExt, size |-> 0, question |-> questions[k], has_doc |-> FALSE]]

\* All locators are downloaded: the answers are generated.
GenerateAnswers(r) ==
    /\ rq[r].pc = "answer"
    /\ rq' = [rq EXCEPT ![r].answers = generate_answers(rq[r].questions, rq[r].downloaded_docs),
                        ![r].pc = "cleanup"]
    /\ hist' = [hist EXCEPT ![r].answered = TRUE]
    /\ UNCHANGED <<session, sessions, fs, response, shutdown, cls>>

\* Mutant of cleanup: the first os.unlink that raises ends the loop.
cleanup_stop_on_error(downloaded_docs, failing) ==
    LET n == IF failing = {} THEN Len(downloaded_docs)
             ELSE CHOOSE k \in failing : \A j \in failing : k <= j
    IN [k \in 1..n |-> [file_path |-> downloaded_docs[k].file_path, ok |-> k \notin failing]]

\* The clean-up loop of run_webhook: os.unlink is tried on every document, in
\* order; failing is the set of positions where it raises.
cleanup(downloaded_docs, failing) ==
    [k \in 1..Len(downloaded_docs) |->
        [file_path |-> downloaded_docs[k].file_path, ok |-> k \notin failing]]

\* The scratch files are deleted and the answers returned.
CleanupAndReturn(r) ==
    /\ rq[r].pc = "cleanup"
    /\ \E failing \in SUBSET (1..Len(rq[r].downloaded_docs)) :
        LET unlinks == cleanup(rq[r].downloaded_docs, failing)
            removed == {unlinks[k].file_path : k \in {j \in DOMAIN unlinks : unlinks[j].ok}}
        IN /\ fs' = [p \in Paths |-> IF p \in removed THEN Absent ELSE fs[p]]
           /\ hist' = [hist EXCEPT ![r].unlinks = unlinks]
    /\ rq' = [rq EXCEPT ![r].pc = "done"]
    /\ response' = [response EXCEPT ![r] = OkResponse(rq[r].answers)]
    /\ UNCHANGED <<session, sessions, shutdown, cls>>

\* Graceful shutdown: the server stops accepting requests, waits for the ones
\* in flight, then runs the shutdown event, which closes the downloader.
shutdown_event ==
    /\ ~shutdown
    /\ \A r \in Requests : rq[r].pc \in {"idle", "done"}
    /\ sessions' = close(session, sessions)
    /\ shutdown' = TRUE
    /\ UNCHANGED <<session, fs, rq, response, hist, cls>>

-----------------------------------------------------------------------------
(* Classification harness: one call of _get_file_extension *)

InitCls == [url |-> url_ext, content_type |-> <<"">>, result |-> NoExt, done |-> FALSE]

Classify ==
    /\ ~cls.done
    /\ cls' = [cls EXCEPT !.result = _get_file_extension(cls.url, cls.content_type),
                          !.done = TRUE]
    /\ UNCHANGED <<session, sessions, fs, rq, response, hist, shutdown>>

-----------------------------------------------------------------------------
(* Specifications *)

InitProgram ==
    /\ session = None
    /\ sessions = <<>>
    /\ fs = [p \in Paths |-> Absent]
    /\ rq = [r \in Requests |-> InitRq]
    /\ response = [r \in Requests |-> NoResponse]
    /\ hist = [r \in Requests |-> InitHist]
    /\ shutdown = FALSE

Init == InitProgram /\ cls = InitCls

Next ==
    \/ \E r \in Requests : run_webhook(r)
    \/ \E r \in Requests : GetResponse(r)
    \/ \E r \in Requests : ReadDone(r)
    \/ \E r \in Requests : GenerateAnswers(r)
    \/ \E r \in Requests : CleanupAndReturn(r)
    \/ shutdown_event

Spec == Init /\ [][Next]_vars

\* The classification of every locator path and content type within the bounds.
InitExt ==
    /\ InitProgram
    /\ cls \in [url : [scheme : {"https"}, netloc : {"h"}, path : SeqsUpTo(PathChars, MaxPathLen)],
                content_type : ContentTypes, result : {NoExt}, done : {FALSE}]

NextExt == Classify

SpecExt == InitExt /\ [][NextExt]_vars

-----------------------------------------------------------------------------
(* Vocabulary of the claims *)

Concluded(r) == rq[r].pc = "done"

Range(f) == {f[k] : k \in DOMAIN f}

\* A locator lacks a scheme or an authority.
InvalidLocator(url) == url.scheme = "" \/ url.netloc = ""

\* The fault kind a caller of download_document can tell from what it raises:
\* the status code and the text of the detail.
FaultKind(e) ==
    IF e.status_code = 400 /\ e.msg = "Network error downloading" THEN "network-error"
    ELSE IF e.status_code = 400 /\ e.msg = "Failed to download document from" THEN "http-error"
    ELSE IF e.status_code = 500 /\ e.msg = "Error downloading" THEN "internal-error"
    ELSE "other"

\* download_document raised for some locator of request r.
DownloadFailed(r) == hist[r].failedAt # 0

FailedUrl(r) == rq[r].document_urls[hist[r].failedAt]

Authenticated(r) ==
    /\ Len(rq[r].authorization) >= 2
    /\ rq[r].authorization[1] = "Bearer"
    /\ rq[r].authorization[2] = API_KEY

\* The extension of a path, said without splitext: the last segment of the
\* path, cut at its last dot, when something other than dots precedes the dot.
LastSegment(p) ==
    LET start == CHOOSE k \in 1..(Len(p) + 1) :
                     /\ \A j \in k..Len(p) : p[j] # "/"
                     /\ k = 1 \/ p[k - 1] = "/"
    IN SubSeq(p, start, Len(p))

PathExtension(p) ==
    LET seg == LastSegment(p)
        dots == {k \in 1..Len(seg) : seg[k] = "." /\ \A j \in (k + 1)..Len(seg) : seg[j] # "."}
    IN IF dots = {} THEN NoExt
       ELSE LET d == CHOOSE k \in dots : TRUE
            IN IF \A j \in 1..(d - 1) : seg[j] = "." THEN NoExt ELSE SubSeq(seg, d, Len(seg))

\* The extension the media-type table gives for a content type, parameters
\* after ';' ignored.
TableExtension(content_type) ==
    IF content_type = <<"">> THEN NoExt ELSE guess_extension(Head(content_type))

-----------------------------------------------------------------------------
(* Claims *)

\* C1: once a request has concluded, no scratch file it created for a
\* downloaded document still exists; in particular the first locator's file
\* is gone when a later locator of the batch fails with 400.
C1_NoScratchFileOutlivesRequest ==
    \A r \in Requests :
        Concluded(r) =>
            \A k \in DOMAIN rq[r].downloaded_docs : fs[rq[r].downloaded_docs[k].file_path] # r

\* C2: a bearer token different from the secret yields 403, an absent or
\* malformed Authorization header yields 401, and in both cases
\* download_document was not invoked for any locator.
C2_AuthRejectedBeforeDownload ==
    \A r \in Requests :
        (Concluded(r) /\ ~Authenticated(r)) =>
            /\ hist[r].invoked = <<>>
            /\ IF Len(rq[r].authorization) >= 2 /\ rq[r].authorization[1] = "Bearer"
               THEN response[r].status = 403
               ELSE response[r].status = 401

\* C3: locators are fetched one at a time in input order; once
\* download_document fails for locator i it is invoked for no later locator
\* and the request ends with a 400 whose detail names locator i.
C3_FailFast ==
    \A r \in Requests :
        /\ hist[r].invoked = [k \in 1..Len(hist[r].invoked) |-> k]
        /\ Len(hist[r].invoked) <= Len(rq[r].downloaded_docs) + 1
        /\ DownloadFailed(r) =>
              /\ Concluded(r)
              /\ Len(hist[r].invoked) = hist[r].failedAt
              /\ response[r].status = 400
              /\ response[r].msg = "Failed to download document"
              /\ response[r].url = FailedUrl(r)

\* C3 witness: the first of two different locators failed and the second was
\* never fetched.
C3_Witness ==
    \E r \in Requests :
        /\ hist[r].failedAt = 1
        /\ Len(rq[r].document_urls) = 2
        /\ rq[r].document_urls[1] # rq[r].document_urls[2]
        /\ response[r].status = 400

\* C4: for a locator that lacks a scheme or an authority download_document
\* reports a fault kind of its own (not network-error, http-error or
\* internal-error) and issues no GET for it.
C4_InvalidLocatorKind ==
    \A r \in Requests :
        (DownloadFailed(r) /\ InvalidLocator(FailedUrl(r))) =>
            /\ FaultKind(hist[r].fault) \notin {"network-error", "http-error", "internal-error"}
            /\ hist[r].failedAt \notin Range(hist[r].gets)

\* C5: when the GET returns a non-success status download_document reports
\* the fault kind http-error carrying the status, and creates no scratch file
\* for that locator.
C5_HttpErrorKind ==
    \A r \in Requests :
        (DownloadFailed(r) /\ rq[r].resp.status \notin {0, 200}) =>
            /\ FaultKind(hist[r].fault) = "http-error"
            /\ hist[r].fault.status = rq[r].resp.status
            /\ Cardinality(hist[r].created) = Len(rq[r].downloaded_docs)

\* C6: an authenticated request either fails with an error status and no
\* answers, or returns 200 with exactly one answer per question, answer k for
\* question k; until it concludes no response exists.
C6_AllAnswersOrNone ==
    \A r \in Requests :
        /\ ~Concluded(r) => response[r] = NoResponse
        /\ (Concluded(r) /\ Authenticated(r)) =>
              \/ /\ response[r].status \notin {0, 200}
                 /\ ~response[r].has_answers
                 /\ response[r].answers = <<>>
              \/ /\ response[r].status = 200
                 /\ response[r].has_answers
                 /\ Len(response[r].answers) = Len(rq[r].questions)
                 /\ \A k \in DOMAIN rq[r].questions :
                        response[r].answers[k].question = rq[r].questions[k]

\* C6 witness: a 200 response to two questions.
C6_Witness ==
    \E r \in Requests :
        /\ response[r].status = 200
        /\ Len(rq[r].questions) = 2
        /\ Len(response[r].answers) = 2

\* C7: when every locator of the batch was downloaded, deletion of every
\* document's scratch file is attempted, after the answers are generated and
\* before the response exists; a failing deletion stops nothing and the
\* response is 200.
C7_CleanupAllSwallowErrors ==
    \A r \in Requests :
        /\ hist[r].unlinks # <<>> => hist[r].answered
        /\ response[r].status = 200 => Len(rq[r].downloaded_docs) = Len(rq[r].document_urls)
        /\ (/\ Concluded(r)
            /\ rq[r].document_urls # <<>>
            /\ Len(rq[r].downloaded_docs) = Len(rq[r].document_urls)) =>
              /\ response[r].status = 200
              /\ response[r].answers = rq[r].answers
              /\ Len(hist[r].unlinks) = Len(rq[r].downloaded_docs)
              /\ \A k \in DOMAIN rq[r].downloaded_docs :
                    hist[r].unlinks[k].file_path = rq[r].downloaded_docs[k].file_path

\* C7 witness: a batch of two documents where the first deletion failed, the
\* second was still attempted and succeeded, and the response is 200.
C7_Witness ==
    \E r \in Requests :
        /\ response[r].status = 200
        /\ Len(hist[r].unlinks) = 2
        /\ ~hist[r].unlinks[1].ok
        /\ hist[r].unlinks[2].ok

\* C8: whatever the interleaving of requests, at most one client session is
\* ever constructed, every download in progress uses that one instance, and
\* at most one session is open.
C8_SingleSession ==
    /\ Len(sessions) <= 1
    /\ Cardinality({id \in DOMAIN sessions : sessions[id] = 0}) <= 1
    /\ \A r \in Requests :
          hist[r].invoked # <<>> => (rq[r].session = session /\ session # None)

\* C8 witness: two requests are both suspended inside download_document.
C8_Witness ==
    /\ \A r \in Requests : rq[r].pc \in {"get", "read"}
    /\ Len(sessions) = 1

\* C9: the shared session is closed exactly once, by the shutdown event:
\* never before shutdown, never twice, and none is open after shutdown.
C9_ClosedOnceAtShutdown ==
    /\ ~shutdown => \A id \in DOMAIN sessions : sessions[id] = 0
    /\ shutdown => \A id \in DOMAIN sessions : sessions[id] = 1

\* C9 witness: requests used the session and shutdown has closed it.
C9_Witness ==
    /\ shutdown
    /\ sessions = <<1>>
    /\ \E r \in Requests : hist[r].gets # <<>>

\* C10 as stated: the result is the extension of the path when it has one,
\* otherwise the media-type table's extension for the content type, otherwise
\* '.bin'.
C10_ExtensionPreference ==
    cls.done =>
        cls.result =
            IF PathExtension(cls.url.path) # NoExt THEN PathExtension(cls.url.path)
            ELSE IF TableExtension(cls.content_type) # NoExt
                 THEN TableExtension(cls.content_type)
                 ELSE bin_ext

\* C10 amended: as C10, with the path's extension returned in lower case.
C10_ExtensionPreferenceLower ==
    cls.done =>
        cls.result =
            IF PathExtension(cls.url.path) # NoExt THEN str_lower(PathExtension(cls.url.path))
            ELSE IF TableExtension(cls.content_type) # NoExt
                 THEN TableExtension(cls.content_type)
                 ELSE bin_ext

\* C10 witness: a path with an upper-case extension and a content type that
\* maps to another extension; the path's extension wins, lower-cased.
C10_Witness ==
    /\ cls.done
    /\ PathExtension(cls.url.path) = <<".", "B">>
    /\ cls.content_type = <<"text/plain">>
    /\ cls.result = <<".", "b">>

====
